---- MODULE Spec2Model ----
(***************************************************************************)
(* Model of the ssh_log / private_key_dups pipeline of                     *)
(* authlog_collector_agents.py: SSHLogExtractorAgent (ingestion of the     *)
(* *_auth.log.* files into ssh_log) followed by PrivateKeyDupAgent         *)
(* (detection of a key fingerprint used from more than one source).        *)
(*                                                                         *)
(* Text.  A line of text is a sequence of tokens; a token is a short       *)
(* string that pattern matching and comparison treat as a unit.  The text  *)
(* a sequence stands for is the concatenation of its tokens.  No token is  *)
(* a prefix of another one, so comparing two texts token by token in the   *)
(* order of TokOrder is Python's comparison of the two strings.  A         *)
(* character class of a pattern holds the tokens made of its characters    *)
(* only; the input lines put no other token where a class would match a    *)
(* part of it.  Lines do not hold their newline: a file is the sequence    *)
(* of its lines.                                                           *)
(***************************************************************************)
EXTENDS Integers, Sequences, FiniteSets, TLC

\* ------------------------------------------------------------------ bounds
MaxLines == 3      \* lines the input directory holds in total
MaxRuns  == 3      \* pipeline runs
MaxFailures == 1   \* runs that a filesystem failure ends
MaxFailRuns == 2   \* runs when the filesystem may fail
MaxConcLines == 2  \* input lines when two processes run
MaxVarLines == 3   \* input lines when lines differ in the discarded parts
MaxVarRuns == 2    \* runs on such input
MaxConcRuns == 2   \* runs of the two processes together
MaxRemoteLines == 2 \* lines of a remote auth.log
MaxRetrRuns == 2   \* runs of main with its retrieval phase

\* ------------------------------------------------------------------ text
\* every token, in ascending order of its string (code point order)
TokOrder ==
  << "\t", " ", ",", "0.0.0.1", "0.0.0.2", "025-01-01T00:00:00",
     "025-01-01T00:01:00", "1", "2", "AAA", "Accepted", "CRON", "ED25519",
     "Failed", "RSA", "SHA256:", "[", "]:", "alpha", "beta", "for", "from",
     "jdoe", "opened", "port", "publickey", "session", "ssh2:", "sshd" >>

Range(s) == { s[i] : i \in 1..Len(s) }

Token == Range(TokOrder)

TokRank(t) == CHOOSE i \in 1..Len(TokOrder) : TokOrder[i] = t

\* str.__lt__ on two texts: lexicographic, a proper prefix is smaller
RECURSIVE TextLess(_, _)
TextLess(a, b) ==
  IF b = << >> THEN FALSE
  ELSE IF a = << >> THEN TRUE
  ELSE IF a[1] = b[1] THEN TextLess(Tail(a), Tail(b))
  ELSE TokRank(a[1]) < TokRank(b[1])

\* sorted(S) for a set of texts
RECURSIVE Sorted(_)
Sorted(S) ==
  IF S = {} THEN << >>
  ELSE LET m == CHOOSE x \in S : \A y \in S \ {x} : TextLess(x, y)
       IN  << m >> \o Sorted(S \ {m})

\* character classes of the patterns, token by token
WhitespaceTok == { " ", "\t" }                    \* str.strip(), \s
NonWhitespaceTok == Token \ WhitespaceTok         \* \S
NonSpaceTok == Token \ { " " }                    \* [^ ]
DigitTok == { "1", "2" }                          \* \d
Base64Tok == { "1", "2", "AAA", "Accepted", "CRON", "ED25519", "Failed",
               "RSA", "alpha", "beta", "for", "from", "jdoe", "opened",
               "port", "publickey", "session", "sshd" }  \* [A-Za-z0-9+/=]

\* str.strip(): drop the whitespace at both ends
RECURSIVE LStrip(_)
LStrip(t) ==
  IF t # << >> /\ t[1] \in WhitespaceTok THEN LStrip(Tail(t)) ELSE t

RECURSIVE RStrip(_)
RStrip(t) ==
  IF t # << >> /\ t[Len(t)] \in WhitespaceTok
  THEN RStrip(SubSeq(t, 1, Len(t) - 1)) ELSE t

Strip(t) == RStrip(LStrip(t))

\* "sshd" in line
ContainsSshd(line) == \E i \in 1..Len(line) : line[i] = "sshd"

\* ------------------------------------------------------------ key_pattern
\* last position of the longest run of tokens of class C that starts at i
\* (i - 1 when there is none)
RECURSIVE RunEnd(_, _, _)
RunEnd(line, i, C) ==
  IF i <= Len(line) /\ line[i] \in C THEN RunEnd(line, i + 1, C) ELSE i - 1

\* the literal lit stands in line at position i
LitAt(line, i, lit) ==
  /\ i + Len(lit) - 1 <= Len(line)
  /\ SubSeq(line, i, i + Len(lit) - 1) = lit

\* key_pattern.search(line): the end positions of the pieces of
\*  ^(ts \S+)\s+\S+\s+sshd\[\d+\]: Accepted publickey for (user \S+)
\*   from (src [^ ]+) port \d+ ssh2: \S+ (fp SHA256:[A-Za-z0-9+/=]+)
\* Every repetition is followed by a token outside its class, so the
\* longest run is the only way each piece can match.
KeyPos(line) ==
  LET ts   == RunEnd(line, 1, NonWhitespaceTok)
      ws1  == RunEnd(line, ts + 1, WhitespaceTok)
      host == RunEnd(line, ws1 + 1, NonWhitespaceTok)
      ws2  == RunEnd(line, host + 1, WhitespaceTok)
      pid  == RunEnd(line, ws2 + 3, DigitTok)
      user == RunEnd(line, pid + 9, NonWhitespaceTok)
      src  == RunEnd(line, user + 4, NonSpaceTok)
      port == RunEnd(line, src + 4, DigitTok)
      kt   == RunEnd(line, port + 4, NonWhitespaceTok)
      fp   == RunEnd(line, kt + 3, Base64Tok)
  IN [ ts |-> ts, ws1 |-> ws1, host |-> host, ws2 |-> ws2, pid |-> pid,
       user |-> user, src |-> src, port |-> port, kt |-> kt, fp |-> fp ]

KeyPatternMatches(line) ==
  LET p == KeyPos(line)
  IN /\ p.ts >= 1
     /\ p.ws1 > p.ts
     /\ p.host > p.ws1
     /\ p.ws2 > p.host
     /\ LitAt(line, p.ws2 + 1, << "sshd", "[" >>)
     /\ p.pid >= p.ws2 + 3
     /\ LitAt(line, p.pid + 1,
              << "]:", " ", "Accepted", " ", "publickey", " ", "for", " " >>)
     /\ p.user >= p.pid + 9
     /\ LitAt(line, p.user + 1, << " ", "from", " " >>)
     /\ p.src >= p.user + 4
     /\ LitAt(line, p.src + 1, << " ", "port", " " >>)
     /\ p.port >= p.src + 4
     /\ LitAt(line, p.port + 1, << " ", "ssh2:", " " >>)
     /\ p.kt >= p.port + 4
     /\ LitAt(line, p.kt + 1, << " ", "SHA256:" >>)
     /\ p.fp >= p.kt + 3

\* m.group("ts"), m.group("user"), m.group("src"), m.group("fp")
GroupTs(line)   == SubSeq(line, 1, KeyPos(line).ts)
GroupUser(line) == SubSeq(line, KeyPos(line).pid + 9, KeyPos(line).user)
GroupSrc(line)  == SubSeq(line, KeyPos(line).user + 4, KeyPos(line).src)
GroupFp(line)   == SubSeq(line, KeyPos(line).kt + 2, KeyPos(line).fp)

\* the tuple find_dups adds for a matching line: (source, user, ts)
Triple(line) == << GroupSrc(line), GroupUser(line), GroupTs(line) >>

\* LogLine with the user written before the source
LogLine_UserFirst(s, fingerprint) ==
  s[2] \o << "," >> \o s[1] \o << "," >> \o s[3] \o << "," >> \o fingerprint

\* f"{s[0]},{s[1]},{s[2]},{fingerprint}"
LogLine(s, fingerprint) ==
  s[1] \o << "," >> \o s[2] \o << "," >> \o s[3] \o << "," >> \o fingerprint

\* ------------------------------------------------------------- input lines
Ts0  == << "2", "025-01-01T00:00:00" >>       \* 2025-01-01T00:00:00
Ts1  == << "2", "025-01-01T00:01:00" >>       \* 2025-01-01T00:01:00
Src1 == << "1", "0.0.0.1" >>                  \* 10.0.0.1
Src2 == << "1", "0.0.0.2" >>                  \* 10.0.0.2
SrcTab == << "\t" >> \o Src1                  \* 10.0.0.1 after a tab
Port22 == << "2", "2" >>

\* an sshd line "<ts> <host> sshd[<pid>]: <verb> publickey for <user> from
\* <src> port <port> ssh2: ED25519 SHA256:AAA"
SshdLine(ts, host, pid, verb, user, src, port) ==
  ts \o << " ", host, " ", "sshd", "[", pid, "]:", " ", verb, " ",
           "publickey", " ", "for", " ", user, " ", "from", " " >>
     \o src \o << " ", "port", " " >> \o port
     \o << " ", "ssh2:", " ", "ED25519", " ", "SHA256:", "AAA" >>

LineA1  == SshdLine(Ts0, "alpha", "1", "Accepted", "jdoe", Src1, Port22)
LineA2  == SshdLine(Ts1, "beta", "2", "Accepted", "jdoe", Src2, Port22)
LineB2  == SshdLine(Ts1, "beta", "2", "Accepted", "jdoe", Src1, Port22)
LineTab == SshdLine(Ts1, "alpha", "1", "Accepted", "jdoe", SrcTab, Port22)
\* an sshd line without the "Accepted publickey" clause
LineFail == SshdLine(Ts0, "beta", "2", "Failed", "jdoe", Src2, Port22)
\* a line that is not from sshd
LineCron == Ts0 \o << " ", "alpha", " ", "CRON", "[", "1", "]:", " ",
                      "session", " ", "opened" >>
\* LineA2 between a leading blank and a trailing tab
LinePad == << " " >> \o LineA2 \o << "\t" >>

\* an accepted-publickey line with another process id, port and key type
\* than SshdLine gives, and text after the fingerprint
VariantLine(ts, host, user, src) ==
  ts \o << " ", host, " ", "sshd", "[", "2", "]:", " ", "Accepted", " ",
           "publickey", " ", "for", " ", user, " ", "from", " " >>
     \o src \o << " ", "port", " ", "2", "1", " ", "ssh2:", " ", "RSA", " ",
                  "SHA256:", "AAA", " ", "session" >>

\* LineA1 and LineTab with other discarded parts
LineA1V  == VariantLine(Ts0, "alpha", "jdoe", Src1)
LineTabV == VariantLine(Ts1, "alpha", "jdoe", SrcTab)

\* the files glob("*_auth.log.*") finds
AuthLogs == { "alpha_auth.log.20250101", "beta_auth.log.20250101" }

\* the raw lines each input file is written from: the lines of its host's
\* auth.log, and one line that reaches both files
InputLines ==
  [ f \in AuthLogs |->
      IF f = "alpha_auth.log.20250101"
      THEN { LineA1, LineTab, LineCron, LineFail }
      ELSE { LineA2, LineB2, LinePad, LineFail } ]

\* ------------------------------------------------------------------- state
VARIABLES
  authlogs,                \* input file -> its lines
  ssh_log,                 \* the file ssh_log: [exists, lines]
  private_key_dups,        \* the file private_key_dups: [exists, lines]
  pc,                      \* position of the run in main
  seen_auth_entries,       \* SSHLogExtractorAgent.seen_auth_entries
  seen_ssh_entries,        \* SSHLogExtractorAgent.seen_ssh_entries
  new_ssh_entries,         \* main's new_ssh_entries
  fingerprint_to_sources,  \* PrivateKeyDupAgent.fingerprint_to_sources
  dup_lines,               \* PrivateKeyDupAgent.dup_lines
  new_dups,                \* main's new_dups
  runs,                    \* runs started so far
  run_start,               \* lines of both output files when the run started
  input_touched,           \* the input changed since the last run started
  same_input,              \* this run reads the input the run before it read
  encountered,             \* this run's new sshd lines in the order met
  sent,                    \* the counts main has reported with user_proxy.send
  failure,                 \* the step whose exception ended the run, or "none"
  prev_failure,            \* failure of the run before this one
  failures,                \* runs that a filesystem failure has ended
  other,                   \* the memory of a second process of the pipeline
  tmpfiles,                \* input file -> its download file <name>.tmp
  retrieval                \* the host main was given and what became of it

vars == << authlogs, ssh_log, private_key_dups, pc, seen_auth_entries,
           seen_ssh_entries, new_ssh_entries, fingerprint_to_sources,
           dup_lines, new_dups, runs, run_start, input_touched, same_input,
           encountered, sent, failure, prev_failure, failures,
           other, tmpfiles, retrieval >>

files == << ssh_log, private_key_dups >>
extractor == << seen_auth_entries, seen_ssh_entries, new_ssh_entries >>
privdup_agent == << fingerprint_to_sources, dup_lines, new_dups >>
history == << runs, run_start, input_touched, same_input, encountered >>
outcome == << sent, failure, prev_failure >>
retrieve_state == << tmpfiles, retrieval >>

\* the memory of a process that has not started
NoMemory ==
  [ pc |-> "idle", seen_auth_entries |-> {}, seen_ssh_entries |-> {},
    new_ssh_entries |-> {}, fingerprint_to_sources |-> [ fp \in {} |-> {} ],
    dup_lines |-> {}, new_dups |-> {}, sent |-> << >>, failure |-> "none" ]

NoFile == [ exists |-> FALSE, lines |-> << >> ]

\* the lines in the input directory
InputCount ==
  LET RECURSIVE Sum(_)
      Sum(S) == IF S = {} THEN 0
                ELSE LET f == CHOOSE x \in S : TRUE
                     IN  Len(authlogs[f]) + Sum(S \ {f})
  IN Sum(AuthLogs)

\* the name of the file retrieve_auth_log downloads to: f"{localfile}.tmp"
TmpOf ==
  [ f \in AuthLogs |->
      IF f = "alpha_auth.log.20250101" THEN "alpha_auth.log.20250101.tmp"
      ELSE "beta_auth.log.20250101.tmp" ]

\* the files glob("*_auth.log.*") lists: the input files, and every download
\* file there is, whose name the pattern matches too
GlobFiles ==
  AuthLogs \cup { TmpOf[f] : f \in { g \in AuthLogs : tmpfiles[g].exists } }

\* the lines of a listed file
Content(name) ==
  IF name \in AuthLogs THEN authlogs[name]
  ELSE tmpfiles[CHOOSE f \in AuthLogs : TmpOf[f] = name].lines

\* the orders glob may list the files in
GlobOrders ==
  { o \in [1..Cardinality(GlobFiles) -> GlobFiles] :
      \A f \in GlobFiles : \E i \in DOMAIN o : o[i] = f }

Init ==
  /\ authlogs = [ f \in AuthLogs |-> << >> ]
  /\ ssh_log = NoFile
  /\ private_key_dups = NoFile
  /\ pc = "idle"
  /\ seen_auth_entries = {}
  /\ seen_ssh_entries = {}
  /\ new_ssh_entries = {}
  /\ fingerprint_to_sources = [ fp \in {} |-> {} ]
  /\ dup_lines = {}
  /\ new_dups = {}
  /\ runs = 0
  /\ run_start = [ ssh_log |-> << >>, private_key_dups |-> << >> ]
  /\ input_touched = FALSE
  /\ same_input = FALSE
  /\ encountered = << >>
  /\ sent = << >>
  /\ failure = "none"
  /\ prev_failure = "none"
  /\ failures = 0
  /\ other = NoMemory
  /\ tmpfiles = [ f \in AuthLogs |-> NoFile ]
  /\ retrieval = [ host |-> "none", outcome |-> "none", before |-> << >>,
                   downloaded |-> << >> ]

\* ------------------------------------------------- SSHLogExtractorAgent
\* CreateIfAbsent without the creation of the missing file
CreateIfAbsent_Skip(file) == file

\* CreateIfAbsent with open(path, "w") whether the file exists or not
CreateIfAbsent_Truncate(file) == [ exists |-> TRUE, lines |-> << >> ]

\* open(path, "w") of _load_seen_entries when the file does not exist
CreateIfAbsent(file) ==
  IF file.exists THEN file ELSE [ exists |-> TRUE, lines |-> << >> ]

\* the set a loader builds: { line.strip() for line in f }
StrippedLines(lines) == { Strip(lines[i]) : i \in 1..Len(lines) }

\* Scan without line.strip(): the raw text of each line
RECURSIVE Scan_Raw(_, _)
Scan_Raw(order, i) ==
  IF i > Len(order) THEN << >>
  ELSE Content(order[i]) \o Scan_Raw(order, i + 1)

\* the stripped lines of the input files, in the order the nested loops of
\* extract_new_ssh_entries meet them when glob lists the files as order
RECURSIVE Scan(_, _)
Scan(order, i) ==
  IF i > Len(order) THEN << >>
  ELSE [ k \in 1..Len(Content(order[i])) |-> Strip(Content(order[i])[k]) ]
         \o Scan(order, i + 1)

\* IsNewSshEntry that takes only the accepted-publickey lines
IsNewSshEntry_OnlyAccepted(line, seen) ==
  KeyPatternMatches(line) /\ line \notin seen

\* IsNewSshEntry without the test for the sshd marker
IsNewSshEntry_NoMarker(line, seen) == line \notin seen

\* IsNewSshEntry with the test "line not in self.seen_auth_entries" as a
\* condition of the ingestion too
IsNewSshEntry_GatedByAuthSeen(line, seen) ==
  ContainsSshd(line) /\ line \notin seen /\ line \notin seen_auth_entries

\* IsNewSshEntry without the test against the seen set
IsNewSshEntry_IgnoresSeen(line, seen) == ContainsSshd(line)

\* the test of extract_new_ssh_entries on a stripped line
IsNewSshEntry(line, seen) == ContainsSshd(line) /\ line \notin seen

\* AppendSorted with the file opened in mode "w"
AppendSorted_Overwrite(file, new) ==
  IF new = {} THEN file ELSE [ exists |-> TRUE, lines |-> Sorted(new) ]

\* AppendSorted without the call of sorted: the entries are written in the
\* order the set yields them, here the descending one
AppendSorted_Unsorted(file, new) ==
  IF new = {} THEN file
  ELSE LET asc == Sorted(new)
       IN  [ exists |-> TRUE,
             lines |-> file.lines
                \o [ i \in 1..Len(asc) |-> asc[Len(asc) + 1 - i] ] ]

\* AppendSorted under a lock, with the file read again before the write
AppendSorted_Rechecked(file, new) ==
  IF new = {} THEN file
  ELSE [ exists |-> TRUE,
         lines |-> file.lines \o Sorted(new \ StrippedLines(file.lines)) ]

\* AppendSorted without sorted(): the lines in the order the scan met them
AppendSorted_AsMet(file, new) ==
  IF new = {} THEN file
  ELSE [ exists |-> TRUE,
         lines |-> file.lines \o
           (IF new \subseteq Range(encountered)
            THEN SelectSeq(encountered, LAMBDA l : l \in new)
            ELSE Sorted(new)) ]

\* with open(self.ssh_log_file, "a"): write each entry of sorted(new)
AppendSorted(file, new) ==
  IF new = {} THEN file
  ELSE [ exists |-> TRUE, lines |-> file.lines \o Sorted(new) ]

\* the elements of set S in the order of their first occurrence in seq
RECURSIVE FirstMet(_, _)
FirstMet(seq, S) ==
  IF seq = << >> THEN << >>
  ELSE IF seq[1] \in S THEN << seq[1] >> \o FirstMet(Tail(seq), S \ {seq[1]})
  ELSE FirstMet(Tail(seq), S)

\* extractor = SSHLogExtractorAgent(): __init__ and _load_seen_entries
ExtractorInit ==
  /\ pc \in { "idle", "done", "failed", "retrieved" }
  /\ runs < MaxRuns
  /\ LET file == CreateIfAbsent(ssh_log)
     IN  /\ ssh_log' = file
         /\ IF file.exists
            THEN /\ seen_ssh_entries' = StrippedLines(file.lines)
                 /\ seen_auth_entries' =
                      UNION { StrippedLines(Content(f)) : f \in GlobFiles }
                 /\ pc' = "extract"
            ELSE /\ seen_ssh_entries' = {}
                 /\ seen_auth_entries' = {}
                 /\ pc' = "failed"
         /\ failure' = IF file.exists THEN "none" ELSE "load_seen_entries"
  /\ sent' = << >>
  /\ prev_failure' = failure
  /\ new_ssh_entries' = {}
  /\ fingerprint_to_sources' = [ fp \in {} |-> {} ]
  /\ dup_lines' = {}
  /\ new_dups' = {}
  /\ runs' = runs + 1
  /\ run_start' = [ ssh_log |-> ssh_log.lines,
                    private_key_dups |-> private_key_dups.lines ]
  /\ same_input' = (runs >= 1 /\ ~input_touched)
  /\ input_touched' = FALSE
  /\ encountered' = << >>
  /\ UNCHANGED << authlogs, private_key_dups, other, retrieve_state,
                  failures >>

\* new_ssh_entries = extractor.extract_new_ssh_entries()
ExtractNewSshEntries ==
  /\ pc = "extract"
  /\ \E order \in GlobOrders :
       LET scan == Scan(order, 1)
           new  == { l \in Range(scan) : IsNewSshEntry(l, seen_ssh_entries) }
       IN  /\ seen_auth_entries' = seen_auth_entries \cup Range(scan)
           /\ seen_ssh_entries' = seen_ssh_entries \cup new
           /\ new_ssh_entries' = new
           /\ encountered' = FirstMet(scan, new)
  /\ pc' = "update"
  /\ UNCHANGED << authlogs, files, privdup_agent, runs, run_start,
                  input_touched, same_input, outcome, other, retrieve_state,
                  failures >>

\* ReportCount that counts every entry the agent has seen
ReportCount_AllSeen(entries) == Cardinality(seen_ssh_entries)

\* the number main reports for a set of new entries: len(entries) in
\* "Extracted {n} new ..." / "Found {n} new ...", none ("No new ...") when
\* the set is empty
ReportCount(entries) == Cardinality(entries)

\* extractor.update_ssh_log(new_ssh_entries), then the message about it
UpdateSshLog ==
  /\ pc = "update"
  /\ ssh_log' = AppendSorted(ssh_log, new_ssh_entries)
  /\ sent' = Append(sent, [ about |-> "ssh_log",
                            count |-> ReportCount(new_ssh_entries) ])
  /\ pc' = "dup_init"
  /\ UNCHANGED << authlogs, private_key_dups, extractor, privdup_agent,
                  history, failure, prev_failure, other, retrieve_state,
                  failures >>

\* --------------------------------------------------- PrivateKeyDupAgent
\* _load_existing_dups: the file is read only when it exists
LoadExistingDups(file) ==
  IF file.exists THEN StrippedLines(file.lines) ELSE {}

\* FingerprintIndex built from the lines this run appended only
FingerprintIndex_NewLinesOnly(lines) ==
  LET fresh   == SubSeq(lines, Len(run_start.ssh_log) + 1, Len(lines))
      matched == { l \in { Strip(fresh[i]) : i \in 1..Len(fresh) } :
                     KeyPatternMatches(l) }
  IN  [ fp \in { GroupFp(l) : l \in matched } |->
          { Triple(l) : l \in { m \in matched : GroupFp(m) = fp } } ]

\* the dictionary find_dups builds from the lines of ssh_log
FingerprintIndex(lines) ==
  LET matched == { l \in StrippedLines(lines) : KeyPatternMatches(l) }
  IN  [ fp \in { GroupFp(l) : l \in matched } |->
          { Triple(l) : l \in { m \in matched : GroupFp(m) = fp } } ]

\* MoreThanOneSource with the comparison len(srcs) >= 1
MoreThanOneSource_AtLeastOne(sources) ==
  Cardinality({ s[1] : s \in sources }) >= 1

\* MoreThanOneSource that counts the tuples and not their sources
MoreThanOneSource_CountsTuples(sources) == Cardinality(sources) > 1

\* srcs = set(s[0] for s in sources); len(srcs) > 1
MoreThanOneSource(sources) == Cardinality({ s[1] : s \in sources }) > 1

\* the log lines log_dups finds missing from dup_lines
FindNewDups(index, existing) ==
  { LogLine(s, fp) : << s, fp >> \in
      { << t, f >> \in (UNION { index[f] : f \in DOMAIN index }) \X DOMAIN index :
          t \in index[f] /\ MoreThanOneSource(index[f]) } } \ existing

\* privdup_agent = PrivateKeyDupAgent(): __init__ and _load_existing_dups
DupAgentInit ==
  /\ pc = "dup_init"
  /\ fingerprint_to_sources' = [ fp \in {} |-> {} ]
  /\ dup_lines' = LoadExistingDups(private_key_dups)
  /\ pc' = "find_dups"
  /\ UNCHANGED << authlogs, files, extractor, new_dups, history, outcome,
                  other, retrieve_state,
                  failures >>

\* privdup_agent.find_dups(): open(self.ssh_log_file) raises when the file
\* does not exist
FindDups ==
  /\ pc = "find_dups"
  /\ IF ssh_log.exists
     THEN /\ fingerprint_to_sources' = FingerprintIndex(ssh_log.lines)
          /\ pc' = "log_dups"
     ELSE /\ UNCHANGED fingerprint_to_sources
          /\ pc' = "failed"
  /\ failure' = IF ssh_log.exists THEN "none" ELSE "find_dups"
  /\ UNCHANGED << authlogs, files, extractor, dup_lines, new_dups, history,
                  sent, prev_failure, other, retrieve_state,
                  failures >>

\* new_dups = privdup_agent.log_dups(), then the message about it
LogDups ==
  /\ pc = "log_dups"
  /\ LET new == FindNewDups(fingerprint_to_sources, dup_lines)
     IN  /\ new_dups' = new
         /\ dup_lines' = dup_lines \cup new
         /\ private_key_dups' = AppendSorted(private_key_dups, new)
         /\ sent' = Append(sent, [ about |-> "private_key_dups",
                                   count |-> ReportCount(new) ])
  /\ pc' = "done"
  /\ UNCHANGED << authlogs, ssh_log, extractor, fingerprint_to_sources,
                  history, failure, prev_failure, other, retrieve_state,
                  failures >>

\* ----------------------------------------------------------- environment
\* between two runs a line is written to the end of an input file
AddInputFrom(pool, max) ==
  /\ pc \in { "idle", "done", "failed" }
  /\ InputCount < max
  /\ \E f \in AuthLogs : \E l \in pool[f] :
       authlogs' = [ authlogs EXCEPT ![f] = Append(@, l) ]
  /\ input_touched' = TRUE
  /\ UNCHANGED << files, pc, extractor, privdup_agent, runs, run_start,
                  same_input, encountered, outcome, other, retrieve_state,
                  failures >>

AddInput == AddInputFrom(InputLines, MaxLines)

Next ==
  \/ AddInput
  \/ ExtractorInit
  \/ ExtractNewSshEntries
  \/ UpdateSshLog
  \/ DupAgentInit
  \/ FindDups
  \/ LogDups

Spec == Init /\ [][Next]_vars

\* ------------------------------------------------- filesystem failures
\* No statement of the two agents is inside a try: an OSError of open, of
\* the read loop or of f.write leaves main as an exception, and the
\* statements after the failing call are not executed.

\* PartialAppend with the file opened in mode "w"
PartialAppend_Truncating(file, new, k) ==
  [ exists |-> TRUE, lines |-> SubSeq(Sorted(new), 1, k) ]

\* with open(path, "a"): the write loop over sorted(new) is cut after k lines
PartialAppend(file, new, k) ==
  [ exists |-> TRUE, lines |-> file.lines \o SubSeq(Sorted(new), 1, k) ]

\* SSHLogExtractorAgent(): the creation or the reading of ssh_log, or the
\* reading of an input file, fails
ExtractorInitFails ==
  /\ pc \in { "idle", "done", "failed" }
  /\ runs < MaxRuns
  /\ ssh_log' \in { ssh_log, CreateIfAbsent(ssh_log) }
  /\ pc' = "failed"
  /\ failures < MaxFailures
  /\ failures' = failures + 1
  /\ failure' = "load_seen_entries"
  /\ sent' = << >>
  /\ prev_failure' = failure
  /\ seen_ssh_entries' = {}
  /\ seen_auth_entries' = {}
  /\ new_ssh_entries' = {}
  /\ fingerprint_to_sources' = [ fp \in {} |-> {} ]
  /\ dup_lines' = {}
  /\ new_dups' = {}
  /\ runs' = runs + 1
  /\ run_start' = [ ssh_log |-> ssh_log.lines,
                    private_key_dups |-> private_key_dups.lines ]
  /\ same_input' = (runs >= 1 /\ ~input_touched)
  /\ input_touched' = FALSE
  /\ encountered' = << >>
  /\ UNCHANGED << authlogs, private_key_dups, other, retrieve_state >>

\* a read fails: of an input file in extract_new_ssh_entries, of
\* private_key_dups in _load_existing_dups, of ssh_log in find_dups
ReadFails ==
  /\ pc \in { "extract", "dup_init", "find_dups" }
  /\ failure' = pc
  /\ pc' = "failed"
  /\ failures < MaxFailures
  /\ failures' = failures + 1
  /\ UNCHANGED << authlogs, files, extractor, privdup_agent, history, sent,
                  prev_failure, other, retrieve_state >>

\* UpdateSshLogFails with the exception caught inside update_ssh_log: main
\* goes on to its message and to the second agent
UpdateSshLogFails_Swallowed ==
  /\ pc = "update"
  /\ new_ssh_entries # {}
  /\ \/ UNCHANGED ssh_log
     \/ \E k \in 0..(Cardinality(new_ssh_entries) - 1) :
          ssh_log' = PartialAppend(ssh_log, new_ssh_entries, k)
  /\ failure' = "update_ssh_log"
  /\ pc' = "dup_init"
  /\ sent' = Append(sent, [ about |-> "ssh_log",
                            count |-> ReportCount(new_ssh_entries) ])
  /\ failures < MaxFailures
  /\ failures' = failures + 1
  /\ UNCHANGED << authlogs, private_key_dups, extractor, privdup_agent,
                  history, prev_failure, other, retrieve_state >>

\* update_ssh_log fails: open raises, or a write raises after k lines;
\* main does not reach its message
UpdateSshLogFails ==
  /\ pc = "update"
  /\ new_ssh_entries # {}
  /\ \/ UNCHANGED ssh_log
     \/ \E k \in 0..(Cardinality(new_ssh_entries) - 1) :
          ssh_log' = PartialAppend(ssh_log, new_ssh_entries, k)
  /\ failure' = "update_ssh_log"
  /\ pc' = "failed"
  /\ failures < MaxFailures
  /\ failures' = failures + 1
  /\ UNCHANGED << authlogs, private_key_dups, extractor, privdup_agent,
                  history, sent, prev_failure, other, retrieve_state >>

\* log_dups fails: dup_lines has the new lines already, open raises or a
\* write raises after k lines; new_dups of main is not assigned
LogDupsFails ==
  /\ pc = "log_dups"
  /\ LET new == FindNewDups(fingerprint_to_sources, dup_lines)
     IN  /\ new # {}
         /\ dup_lines' = dup_lines \cup new
         /\ \/ UNCHANGED private_key_dups
            \/ \E k \in 0..(Cardinality(new) - 1) :
                 private_key_dups' = PartialAppend(private_key_dups, new, k)
  /\ failure' = "log_dups"
  /\ pc' = "failed"
  /\ failures < MaxFailures
  /\ failures' = failures + 1
  /\ UNCHANGED << authlogs, ssh_log, extractor, fingerprint_to_sources,
                  new_dups, history, sent, prev_failure, other, retrieve_state >>

\* the input directory changes until a run fails; what follows a failed run
\* works on the input the failed run had
NextFail ==
  \/ AddInput /\ failures = 0
  \/ ExtractorInit /\ runs < MaxFailRuns
  \/ ExtractNewSshEntries
  \/ UpdateSshLog
  \/ DupAgentInit
  \/ FindDups
  \/ LogDups
  \/ ExtractorInitFails /\ runs < MaxFailRuns
  \/ ReadFails
  \/ UpdateSshLogFails
  \/ LogDupsFails

SpecFail == Init /\ [][NextFail]_vars

\* ------------------------------------------------------- two processes
\* the memory of the running process
Memory ==
  [ pc |-> pc, seen_auth_entries |-> seen_auth_entries,
    seen_ssh_entries |-> seen_ssh_entries,
    new_ssh_entries |-> new_ssh_entries,
    fingerprint_to_sources |-> fingerprint_to_sources,
    dup_lines |-> dup_lines, new_dups |-> new_dups, sent |-> sent,
    failure |-> failure ]

\* the scheduler takes the processor from the running process and gives it
\* to the second one: nothing in the two agents takes a lock on a file
Switch ==
  /\ other' = Memory
  /\ pc' = other.pc
  /\ seen_auth_entries' = other.seen_auth_entries
  /\ seen_ssh_entries' = other.seen_ssh_entries
  /\ new_ssh_entries' = other.new_ssh_entries
  /\ fingerprint_to_sources' = other.fingerprint_to_sources
  /\ dup_lines' = other.dup_lines
  /\ new_dups' = other.new_dups
  /\ sent' = other.sent
  /\ failure' = other.failure
  /\ UNCHANGED << authlogs, files, history, prev_failure, failures,
                  retrieve_state >>

\* the input is complete before the first of the two processes starts
NextConc ==
  \/ AddInput /\ runs = 0 /\ InputCount < MaxConcLines
  \/ ExtractorInit /\ runs < MaxConcRuns
  \/ ExtractNewSshEntries
  \/ UpdateSshLog
  \/ DupAgentInit
  \/ FindDups
  \/ LogDups
  \/ Switch

SpecConc == Init /\ [][NextConc]_vars

\* ------------------------------------------------ main's retrieval phase
\* the hostname main is given, and the snapshot file of a host (the other
\* snapshot file stays as it is)
Hosts == { "alpha" }

LocalFile(h) ==
  IF h = "alpha" THEN "alpha_auth.log.20250101" ELSE "beta_auth.log.20250101"

\* the lines /var/log/auth.log of a host is made of
RemoteLines == [ h \in Hosts |-> { LineA1, LineCron } ]

\* what scp may bring from a host
RemoteLogs(h) ==
  UNION { [1..n -> RemoteLines[h]] : n \in 0..MaxRemoteLines }

\* main starts with a hostname and calls is_reachable
StartMain ==
  /\ pc \in { "idle", "done", "failed" }
  /\ \E h \in Hosts :
       retrieval' = [ host |-> h, outcome |-> "none",
                      before |-> authlogs[LocalFile(h)],
                      downloaded |-> << >> ]
  /\ pc' = "reach"
  /\ UNCHANGED << authlogs, files, extractor, privdup_agent, history,
                  outcome, failures, other, tmpfiles >>

\* Unreachable with a return from main after the error message
Unreachable_Returns ==
  /\ pc = "reach"
  /\ retrieval' = [ retrieval EXCEPT !.outcome = "unreachable" ]
  /\ pc' = "idle"
  /\ UNCHANGED << authlogs, files, extractor, privdup_agent, history,
                  outcome, failures, other, tmpfiles >>

\* is_reachable returns False (ping failed, ssh failed, or an exception):
\* retrieve_auth_log is not called
Unreachable ==
  /\ pc = "reach"
  /\ retrieval' = [ retrieval EXCEPT !.outcome = "unreachable" ]
  /\ pc' = "retrieved"
  /\ UNCHANGED << authlogs, files, extractor, privdup_agent, history,
                  outcome, failures, other, tmpfiles >>

\* retrieve_auth_log: scp exits with 0, the download file holds the log
ScpSucceeds ==
  /\ pc = "reach"
  /\ \E d \in RemoteLogs(retrieval.host) :
       /\ tmpfiles' = [ tmpfiles EXCEPT ![LocalFile(retrieval.host)] =
                          [ exists |-> TRUE, lines |-> d ] ]
       /\ retrieval' = [ retrieval EXCEPT !.downloaded = d ]
  /\ pc' = "merge"
  /\ input_touched' = TRUE
  /\ UNCHANGED << authlogs, files, extractor, privdup_agent, runs, run_start,
                  same_input, encountered, outcome, failures, other >>

\* scp exits with another code: the download file is removed if there
ScpFails ==
  /\ pc = "reach"
  /\ tmpfiles' = [ tmpfiles EXCEPT ![LocalFile(retrieval.host)] = NoFile ]
  /\ retrieval' = [ retrieval EXCEPT !.outcome = "scp_failed" ]
  /\ pc' = "retrieved"
  /\ input_touched' = (input_touched \/ tmpfiles' # tmpfiles)
  /\ UNCHANGED << authlogs, files, extractor, privdup_agent, runs, run_start,
                  same_input, encountered, outcome, failures, other >>

\* subprocess.run raises (TimeoutExpired after 20 s, or scp cannot be
\* started): the download file is as scp left it, untouched or holding
\* what had arrived, and the except clause returns without removing it
ScpRaises ==
  /\ pc = "reach"
  /\ \/ UNCHANGED tmpfiles
     \/ \E d \in RemoteLogs(retrieval.host) :
          tmpfiles' = [ tmpfiles EXCEPT ![LocalFile(retrieval.host)] =
                          [ exists |-> TRUE, lines |-> d ] ]
  /\ retrieval' = [ retrieval EXCEPT !.outcome = "exception" ]
  /\ pc' = "retrieved"
  /\ input_touched' = (input_touched \/ tmpfiles' # tmpfiles)
  /\ UNCHANGED << authlogs, files, extractor, privdup_agent, runs, run_start,
                  same_input, encountered, outcome, failures, other >>

\* NewLines without the test "line not in existing"
NewLines_All(snapshot, download) == download

\* the lines of the download that the snapshot does not hold, in the order
\* of the download: new_lines of retrieve_auth_log
NewLines(snapshot, download) ==
  SelectSeq(download, LAMBDA l : l \notin Range(snapshot))

\* the download is merged into the snapshot file and removed
MergeSucceeds ==
  /\ pc = "merge"
  /\ LET f == LocalFile(retrieval.host)
     IN  /\ authlogs' = [ authlogs EXCEPT ![f] =
                            @ \o NewLines(@, tmpfiles[f].lines) ]
         /\ tmpfiles' = [ tmpfiles EXCEPT ![f] = NoFile ]
  /\ retrieval' = [ retrieval EXCEPT !.outcome = "success" ]
  /\ pc' = "retrieved"
  /\ input_touched' = TRUE
  /\ UNCHANGED << files, extractor, privdup_agent, runs, run_start,
                  same_input, encountered, outcome, failures, other >>

\* a read, a write or os.remove raises during the merge: k of the new
\* lines are in the snapshot, and the except clause returns without
\* removing the download file
MergeRaises ==
  /\ pc = "merge"
  /\ LET f == LocalFile(retrieval.host)
         new_lines == NewLines(authlogs[f], tmpfiles[f].lines)
     IN  \E k \in 0..Len(new_lines) :
           authlogs' = [ authlogs EXCEPT ![f] = @ \o SubSeq(new_lines, 1, k) ]
  /\ retrieval' = [ retrieval EXCEPT !.outcome = "exception" ]
  /\ pc' = "retrieved"
  /\ input_touched' = (input_touched \/ authlogs' # authlogs)
  /\ UNCHANGED << files, extractor, privdup_agent, runs, run_start,
                  same_input, encountered, outcome, failures, other,
                  tmpfiles >>

\* main: the retrieval phase, then the two agents
NextRetrieve ==
  \/ StartMain /\ runs < MaxRetrRuns
  \/ Unreachable
  \/ ScpSucceeds
  \/ ScpFails
  \/ ScpRaises
  \/ MergeSucceeds
  \/ MergeRaises
  \/ ExtractorInit /\ pc = "retrieved"
  \/ ExtractNewSshEntries
  \/ UpdateSshLog
  \/ DupAgentInit
  \/ FindDups
  \/ LogDups

\* the positions inside one call of main
InMain ==
  { "reach", "merge", "retrieved", "extract", "update", "dup_init",
    "find_dups", "log_dups" }

\* main leaves the statement it is at: every step of NextRetrieve taken
\* inside main moves pc, and at each position of InMain one is possible
MainProceeds == pc \in InMain /\ pc' \in (InMain \cup { "done", "failed" }) \ { pc }

\* main is one sequential process: each of its statements returns and the
\* next one is executed
SpecRetrieve == Init /\ [][NextRetrieve]_vars /\ WF_pc(MainProceeds)

\* ------------------------------------- lines that differ in the discarded parts
\* the raw lines of an input where lines differ only in what key_pattern
\* discards: process id, port, key type, text after the fingerprint
VariantLines ==
  [ f \in AuthLogs |->
      IF f = "alpha_auth.log.20250101"
      THEN { LineA1, LineA1V, LineTab, LineTabV }
      ELSE { LineA2 } ]

\* such a line reaches an input file, before the first run
AddVariant == AddInputFrom(VariantLines, MaxVarLines) /\ runs = 0

NextVariants ==
  \/ AddVariant
  \/ ExtractorInit /\ runs < MaxVarRuns
  \/ ExtractNewSshEntries
  \/ UpdateSshLog
  \/ DupAgentInit
  \/ FindDups
  \/ LogDups

SpecVariants == Init /\ [][NextVariants]_vars

\* ------------------------------------------------------------ properties
IsPrefix(a, b) == Len(a) <= Len(b) /\ SubSeq(b, 1, Len(a)) = a

\* the lines of a file that are accepted-publickey events
Events(lines) == { l \in StrippedLines(lines) : KeyPatternMatches(l) }

\* the source addresses fingerprint fp was used from, by the events of lines
SourcesOf(lines, fp) ==
  { GroupSrc(l) : l \in { e \in Events(lines) : GroupFp(e) = fp } }

\* the record "source,user,timestamp,fingerprint" of an event
RecordOf(l) == LogLine(Triple(l), GroupFp(l))

\* the lines a run has appended to a file so far
Appended(before, file) == SubSeq(file.lines, Len(before) + 1, Len(file.lines))

\* C1: a run that was started on the input the completed run before it read
\* appends no line to ssh_log and no line to private_key_dups.
C1_SecondRunAppendsNothing ==
  (pc = "done" /\ same_input) =>
     /\ ssh_log.lines = run_start.ssh_log
     /\ private_key_dups.lines = run_start.private_key_dups

\* C2: after completed runs, every event of a fingerprint that ssh_log shows
\* from two or more sources has its record in private_key_dups, the events of
\* the first source included.
C2_ReuseDetectionComplete ==
  pc \in { "idle", "done" } =>
    \A l \in Events(ssh_log.lines) :
      Cardinality(SourcesOf(ssh_log.lines, GroupFp(l))) >= 2 =>
        RecordOf(l) \in Range(private_key_dups.lines)

\* C3: in every state, each line of private_key_dups is the record of an
\* event of ssh_log whose fingerprint ssh_log shows from two or more sources.
C3_SingleSourceNeverReported ==
  \A d \in Range(private_key_dups.lines) :
    \E l \in Events(ssh_log.lines) :
      /\ d = RecordOf(l)
      /\ Cardinality(SourcesOf(ssh_log.lines, GroupFp(l))) >= 2

\* a fingerprint used twice from one source after a completed detection
C3_Witness ==
  /\ pc = "done"
  /\ \E l1, l2 \in Events(ssh_log.lines) :
       /\ l1 # l2
       /\ GroupFp(l1) = GroupFp(l2)
       /\ Triple(l1) # Triple(l2)
       /\ SourcesOf(ssh_log.lines, GroupFp(l1)) = { GroupSrc(l1) }
  /\ private_key_dups.lines = << >>

\* C4: private_key_dups never holds the same line twice.
C4_NoDuplicateDupLines ==
  \A i, j \in 1..Len(private_key_dups.lines) :
    i # j => private_key_dups.lines[i] # private_key_dups.lines[j]

\* C5: every step leaves the old content of ssh_log and of private_key_dups
\* as a prefix of the new content, and within a run the seen sets
\* seen_auth_entries, seen_ssh_entries and dup_lines lose no element.
C5_MonotonicGrowth ==
  [][ /\ IsPrefix(ssh_log.lines, ssh_log'.lines)
      /\ IsPrefix(private_key_dups.lines, private_key_dups'.lines)
      /\ ssh_log.exists => ssh_log'.exists
      /\ private_key_dups.exists => private_key_dups'.exists
      /\ runs' = runs =>
           /\ seen_auth_entries \subseteq seen_auth_entries'
           /\ seen_ssh_entries \subseteq seen_ssh_entries'
           /\ dup_lines \subseteq dup_lines' ]_vars

\* a run that found both files with content and appended to both
C5_Witness ==
  /\ pc = "done"
  /\ run_start.ssh_log # << >>
  /\ Appended(run_start.ssh_log, ssh_log) # << >>
  /\ Appended(run_start.private_key_dups, private_key_dups) # << >>
  /\ seen_ssh_entries # {}

\* the raw lines of the input files
RawInput == UNION { Range(authlogs[f]) : f \in AuthLogs }

\* ingestion has completed on the input as it is now
IngestionDone ==
  \/ pc \in { "dup_init", "find_dups", "log_dups" }
  \/ pc = "done" /\ ~input_touched

\* C6 as stated: after a completed ingestion every input line that contains
\* "sshd" is a line of ssh_log.
C6_EverySshdLineVerbatim ==
  IngestionDone =>
    \A l \in RawInput : ContainsSshd(l) => l \in Range(ssh_log.lines)

\* C6: after a completed ingestion the whitespace-stripped text of every
\* input line that contains "sshd" is a line of ssh_log.
C6_EverySshdLineStripped ==
  IngestionDone =>
    \A l \in RawInput : ContainsSshd(l) => Strip(l) \in Range(ssh_log.lines)

\* an sshd line with blanks around it has been ingested
C6_Witness ==
  /\ IngestionDone
  /\ \E l \in RawInput :
       /\ ContainsSshd(l)
       /\ Strip(l) # l
       /\ Strip(l) \in Range(ssh_log.lines)
       /\ l \notin Range(ssh_log.lines)

\* C7 as stated: a batch of two or more lines is appended to ssh_log in the
\* order the scan of the input files met the lines.
C7_BatchInEncounterOrder ==
  (pc = "dup_init" /\ Len(encountered) >= 2) =>
     Appended(run_start.ssh_log, ssh_log) = encountered

\* C7: the lines a run appends to ssh_log are the run's new lines, each once,
\* in ascending order of their text.
C7_BatchAscending ==
  pc = "dup_init" =>
    LET batch == Appended(run_start.ssh_log, ssh_log)
    IN  /\ Range(batch) = new_ssh_entries
        /\ \A i, j \in 1..Len(batch) : i < j => TextLess(batch[i], batch[j])

\* a batch of two lines that were met in descending order
C7_Witness ==
  /\ pc = "dup_init"
  /\ Len(encountered) >= 2
  /\ Appended(run_start.ssh_log, ssh_log) # encountered
  /\ Range(encountered) = new_ssh_entries

\* every entry of the fingerprint index is the event of an input line that
\* holds the sshd marker and matches the accepted-publickey pattern
IndexFromValidLines ==
  \A fp \in DOMAIN fingerprint_to_sources :
    \A t \in fingerprint_to_sources[fp] :
      \E l \in RawInput :
        /\ ContainsSshd(Strip(l))
        /\ KeyPatternMatches(Strip(l))
        /\ GroupFp(Strip(l)) = fp
        /\ Triple(Strip(l)) = t

\* C8 as stated: an input line without the sshd marker or without a valid
\* accepted-publickey clause is not in ssh_log and gives no index entry.
C8_FilteredFromBoth ==
  /\ \A l \in RawInput :
       (~ContainsSshd(Strip(l)) \/ ~KeyPatternMatches(Strip(l)))
          => Strip(l) \notin Range(ssh_log.lines)
  /\ IndexFromValidLines

\* C8: an input line without the sshd marker is not in ssh_log, and only
\* lines with the marker and a valid accepted-publickey clause give index
\* entries (a line with the marker and no such clause is in ssh_log).
C8_FilterCorrect ==
  /\ \A l \in RawInput :
       ~ContainsSshd(Strip(l)) => Strip(l) \notin Range(ssh_log.lines)
  /\ IndexFromValidLines

\* a run over a line without the marker and an sshd line without the clause
C8_Witness ==
  /\ pc = "done"
  /\ \E l1, l2, l3 \in RawInput :
       /\ ~ContainsSshd(l1)
       /\ ContainsSshd(l2) /\ ~KeyPatternMatches(Strip(l2))
       /\ Strip(l2) \in Range(ssh_log.lines)
       /\ KeyPatternMatches(Strip(l3))
  /\ DOMAIN fingerprint_to_sources # {}

\* C9 as stated: no run fails, and once a run is past its loaders both files
\* exist.
C9_BothFilesCreated ==
  /\ pc # "failed"
  /\ pc \in { "extract", "update", "dup_init", "find_dups", "log_dups",
              "done" } => ssh_log.exists
  /\ pc \in { "find_dups", "log_dups", "done" } => private_key_dups.exists

\* C9: no run fails; ssh_log exists (created empty when absent) from the
\* extractor's loader on; an absent private_key_dups is read as empty and
\* exists only once a record has been appended, so after a first run without
\* qualifying input ssh_log is empty and private_key_dups is absent.
C9_FirstRunInitialisation ==
  /\ pc # "failed"
  /\ pc \in { "extract", "update", "dup_init", "find_dups", "log_dups",
              "done" } => ssh_log.exists
  /\ private_key_dups.exists <=> private_key_dups.lines # << >>
  /\ (pc \in { "find_dups", "log_dups" } /\ ~private_key_dups.exists)
        => dup_lines = {}
  /\ (pc = "done" /\ runs = 1 /\ new_ssh_entries = {})
        => /\ ssh_log = [ exists |-> TRUE, lines |-> << >> ]
           /\ private_key_dups = NoFile

\* a first run over input without an sshd line has completed
C9_Witness ==
  /\ pc = "done"
  /\ runs = 1
  /\ RawInput # {}
  /\ ssh_log = [ exists |-> TRUE, lines |-> << >> ]
  /\ ~private_key_dups.exists

\* fingerprint fp had events from exactly one source when the run started
\* and has events from two or more sources now
BecameReused(fp) ==
  /\ Cardinality(SourcesOf(run_start.ssh_log, fp)) = 1
  /\ Cardinality(SourcesOf(ssh_log.lines, fp)) >= 2

\* C10: when a completed later run has brought a second source for a
\* fingerprint that earlier runs ingested from one source only,
\* private_key_dups holds the records of the earlier events and of the new
\* ones.
C10_CrossRunDetection ==
  (pc = "done" /\ runs >= 2) =>
    \A l \in Events(ssh_log.lines) :
      BecameReused(GroupFp(l)) => RecordOf(l) \in Range(private_key_dups.lines)

C10_Witness ==
  /\ pc = "done"
  /\ runs >= 2
  /\ \E old \in Events(run_start.ssh_log) :
       /\ BecameReused(GroupFp(old))
       /\ RecordOf(old) \in Range(private_key_dups.lines)
       /\ RecordOf(old) \notin Range(run_start.private_key_dups)

\* the count of the message main has sent about a file (a set: empty when
\* none was sent)
Reported(about) ==
  { sent[i].count : i \in { j \in 1..Len(sent) : sent[j].about = about } }

\* C11: the number a run reports for ingestion is the number of lines the
\* run appended to ssh_log, and the number it reports for detection is the
\* number of lines it appended to private_key_dups.
C11_ReportedCounts ==
  /\ pc \in { "dup_init", "find_dups", "log_dups", "done" } =>
       Reported("ssh_log") = { Len(Appended(run_start.ssh_log, ssh_log)) }
  /\ pc = "done" =>
       Reported("private_key_dups") =
         { Len(Appended(run_start.private_key_dups, private_key_dups)) }

\* a second run that reports one new line and one or more new records
C11_Witness ==
  /\ pc = "done"
  /\ runs >= 2
  /\ run_start.ssh_log # << >>
  /\ Reported("ssh_log") = { 1 }
  /\ \E n \in 1..MaxLines : Reported("private_key_dups") = { n }

\* the records of scenario A
RecordA1 == << "1", "0.0.0.1", ",", "jdoe", ",", "2", "025-01-01T00:00:00",
               ",", "SHA256:", "AAA" >>
RecordA2 == << "1", "0.0.0.2", ",", "jdoe", ",", "2", "025-01-01T00:01:00",
               ",", "SHA256:", "AAA" >>

\* one run from empty stores has completed on these two input files
FirstRunOn(alpha, beta) ==
  /\ pc = "done"
  /\ runs = 1
  /\ ~input_touched
  /\ authlogs["alpha_auth.log.20250101"] = alpha
  /\ authlogs["beta_auth.log.20250101"] = beta

\* C12: scenario A.  After one run on the jdoe line from 10.0.0.1 in one
\* file and the jdoe line from 10.0.0.2 with the same fingerprint in the
\* other, ssh_log holds both lines and private_key_dups exactly the two
\* records.
C12_ScenarioA ==
  FirstRunOn(<< LineA1 >>, << LineA2 >>) =>
    /\ { LineA1, LineA2 } \subseteq Range(ssh_log.lines)
    /\ Len(private_key_dups.lines) = 2
    /\ Range(private_key_dups.lines) = { RecordA1, RecordA2 }

C12_Witness ==
  /\ FirstRunOn(<< LineA1 >>, << LineA2 >>)
  /\ private_key_dups.lines = << RecordA1, RecordA2 >>

\* C13: scenario B.  After one run on two lines with the same fingerprint
\* that are both from 10.0.0.1, at different times, ssh_log holds both lines
\* and private_key_dups holds no line.
C13_ScenarioB ==
  FirstRunOn(<< LineA1 >>, << LineB2 >>) =>
    /\ Len(ssh_log.lines) = 2
    /\ Range(ssh_log.lines) = { LineA1, LineB2 }
    /\ private_key_dups.lines = << >>

C13_Witness ==
  /\ FirstRunOn(<< LineA1 >>, << LineB2 >>)
  /\ GroupSrc(LineA1) = GroupSrc(LineB2)
  /\ GroupTs(LineA1) # GroupTs(LineB2)
  /\ ssh_log.lines = << LineA1, LineB2 >>
  /\ fingerprint_to_sources[GroupFp(LineA1)] =
       { Triple(LineA1), Triple(LineB2) }

\* C14: a filesystem error ends the run at the failing step, as an error
\* that reaches the caller of main.  A failed append is followed by no
\* message with a count for that file, and after a failed append to ssh_log
\* the second agent has done nothing: it has loaded nothing and
\* private_key_dups is as the run found it.
C14_FailuresSurfaced ==
  /\ failure # "none" => pc = "failed"
  /\ failure \in { "load_seen_entries", "extract", "update_ssh_log" } =>
       /\ sent = << >>
       /\ dup_lines = {}
       /\ DOMAIN fingerprint_to_sources = {}
       /\ private_key_dups.lines = run_start.private_key_dups
  /\ failure \in { "dup_init", "find_dups", "log_dups" } =>
       /\ Reported("private_key_dups") = {}
       /\ Reported("ssh_log") =
            { Len(Appended(run_start.ssh_log, ssh_log)) }

\* an append to ssh_log that failed after a part of the batch was written
C14_Witness ==
  /\ failure = "update_ssh_log"
  /\ pc = "failed"
  /\ Cardinality(new_ssh_entries) >= 2
  /\ Len(ssh_log.lines) > Len(run_start.ssh_log)

\* C15: when a run has ended in an error, ssh_log and private_key_dups hold
\* what they held when the run started.
C15_FailedRunLeavesFilesUnchanged ==
  pc = "failed" =>
    /\ ssh_log.lines = run_start.ssh_log
    /\ private_key_dups.lines = run_start.private_key_dups

\* the number of lines of a file that are this text
Occurrences(lines, text) ==
  Cardinality({ i \in 1..Len(lines) : lines[i] = text })

\* C16: when the run before was cut in the append to ssh_log or to
\* private_key_dups, a complete run on the same input ends with every sshd
\* line of the input once in ssh_log and the record of every event of a
\* reused fingerprint once in private_key_dups.
C16_CrashRecovery ==
  ( /\ pc = "done"
    /\ prev_failure \in { "update_ssh_log", "log_dups" }
    /\ same_input
    /\ ~input_touched ) =>
    /\ \A l \in RawInput :
         ContainsSshd(Strip(l)) => Occurrences(ssh_log.lines, Strip(l)) = 1
    /\ \A e \in Events(ssh_log.lines) :
         Cardinality(SourcesOf(ssh_log.lines, GroupFp(e))) > 1 =>
           Occurrences(private_key_dups.lines, RecordOf(e)) = 1

\* the records log_dups set out to append in the run that failed
FailedDupBatch == dup_lines \ StrippedLines(run_start.private_key_dups)

\* C17: when an append was cut, at open or between two line writes, the
\* file starts with all it held before the run, unchanged, and what came
\* after is the start of the sorted batch: only lines at the end of the
\* batch are missing.
C17_PriorContentIntact ==
  /\ failure = "update_ssh_log" =>
       /\ IsPrefix(run_start.ssh_log, ssh_log.lines)
       /\ IsPrefix(Appended(run_start.ssh_log, ssh_log),
                   Sorted(new_ssh_entries))
  /\ failure = "log_dups" =>
       /\ IsPrefix(run_start.private_key_dups, private_key_dups.lines)
       /\ IsPrefix(Appended(run_start.private_key_dups, private_key_dups),
                   Sorted(FailedDupBatch))

\* a second run whose append to ssh_log was cut after the first of two
\* or more lines
C17_Witness ==
  /\ failure = "update_ssh_log"
  /\ run_start.ssh_log # << >>
  /\ Len(Appended(run_start.ssh_log, ssh_log)) >= 1
  /\ Len(Appended(run_start.ssh_log, ssh_log)) < Cardinality(new_ssh_entries)

\* the positions of main at which update_ssh_log has returned
AfterUpdate == { "dup_init", "find_dups", "log_dups", "done" }

\* C18: nothing serialises two processes on the same files.  A line that
\* both took as new, each having loaded ssh_log before the other appended,
\* is in ssh_log twice or more once both have appended, and a record both
\* took as new is in private_key_dups twice or more once both have logged.
C18_ConcurrentRunsDuplicate ==
  /\ ( pc \in AfterUpdate /\ other.pc \in AfterUpdate ) =>
       \A l \in new_ssh_entries \cap other.new_ssh_entries :
         Occurrences(ssh_log.lines, l) >= 2
  /\ ( pc = "done" /\ other.pc = "done" ) =>
       \A r \in new_dups \cap other.new_dups :
         Occurrences(private_key_dups.lines, r) >= 2

\* two processes have completed and both ssh_log and private_key_dups hold
\* a line twice, although no record starts with whitespace
C18_Witness ==
  /\ pc = "done"
  /\ other.pc = "done"
  /\ \E l \in new_ssh_entries \cap other.new_ssh_entries :
       Occurrences(ssh_log.lines, l) = 2
  /\ \E r \in new_dups \cap other.new_dups :
       /\ Strip(r) = r
       /\ Occurrences(private_key_dups.lines, r) = 2

\* C19: from an absent or empty ssh_log, whatever the sequential runs and
\* the input, ssh_log holds no two identical lines.
C19_NoDuplicateSshLines ==
  \A i, j \in 1..Len(ssh_log.lines) :
    ssh_log.lines[i] = ssh_log.lines[j] => i = j

\* after two runs or more, a line that one input file holds twice and the
\* other file holds too is in ssh_log once
C19_Witness ==
  /\ pc = "done"
  /\ runs >= 2
  /\ Occurrences(authlogs["beta_auth.log.20250101"], LineFail) >= 2
  /\ LineFail \in Range(authlogs["alpha_auth.log.20250101"])
  /\ Occurrences(ssh_log.lines, LineFail) = 1

\* the events ssh_log got in the current run
NewEvents == Events(ssh_log.lines) \ Events(run_start.ssh_log)

\* an event the current run found, whose record is not in private_key_dups
\* when the run starts, while an event with its source, user and
\* fingerprint and another timestamp is reported there
LaterEventOfReported(e) ==
  /\ e \in NewEvents
  /\ RecordOf(e) \notin Range(run_start.private_key_dups)
  /\ \E old \in Events(run_start.ssh_log) :
       /\ GroupFp(old) = GroupFp(e)
       /\ GroupSrc(old) = GroupSrc(e)
       /\ GroupUser(old) = GroupUser(e)
       /\ GroupTs(old) # GroupTs(e)
       /\ RecordOf(old) \in Range(run_start.private_key_dups)

\* C20: when a fingerprint is reported as reused, a later event with a
\* reported source, user and fingerprint and a new timestamp gives a new
\* record, and the run that finds the event appends that record to
\* private_key_dups.
C20_TimestampSensitive ==
  ( pc = "done" /\ runs >= 2 ) =>
    \A e \in Events(ssh_log.lines) :
      LaterEventOfReported(e) =>
        RecordOf(e) \in
          Range(Appended(run_start.private_key_dups, private_key_dups))

\* C21: the records a detection run appends to private_key_dups are the
\* run's new records, each once, in ascending order of their text, whatever
\* the order of the events in ssh_log.
C21_DupBatchAscending ==
  pc = "done" =>
    LET batch == Appended(run_start.private_key_dups, private_key_dups)
    IN  /\ Range(batch) = new_dups
        /\ \A i, j \in 1..Len(batch) : i < j => TextLess(batch[i], batch[j])

\* a run that wrote two records in the order opposite to the order of
\* their events in ssh_log
C21_Witness ==
  /\ pc = "done"
  /\ ssh_log.lines = << LineA1, LineTab >>
  /\ Appended(run_start.private_key_dups, private_key_dups) =
       << RecordOf(LineTab), RecordOf(LineA1) >>

\* the positions of main at which the scan of the input files is complete
\* and the input is the input the scan read
ScanDone == { "update", "dup_init", "find_dups", "log_dups" }

\* C23 as stated: the identities kept in the seen sets are the raw texts of
\* the input lines, one per distinct raw line, and the lines a run writes to
\* ssh_log are raw input lines.
C23_RawTextIdentity ==
  pc \in ScanDone =>
    /\ seen_auth_entries = RawInput
    /\ Range(Appended(run_start.ssh_log, ssh_log)) \subseteq RawInput

\* C23: the identity of a line is its text without leading and trailing
\* whitespace.  The seen sets hold the stripped texts, so two raw lines
\* with the same stripped text are one identity, and the lines a run writes
\* to ssh_log are stripped texts of input lines.
C23_StrippedTextIdentity ==
  pc \in ScanDone =>
    /\ seen_auth_entries = { Strip(l) : l \in RawInput }
    /\ seen_ssh_entries =
         StrippedLines(run_start.ssh_log)
           \cup { Strip(l) : l \in { r \in RawInput : ContainsSshd(r) } }
    /\ Range(Appended(run_start.ssh_log, ssh_log))
         \subseteq { Strip(l) : l \in RawInput }

\* a line and the same line between a space and a tab are both in the
\* input: one identity, written once, without the whitespace
C23_Witness ==
  /\ pc = "dup_init"
  /\ { LineA2, LinePad } \subseteq RawInput
  /\ LinePad \notin seen_auth_entries
  /\ Cardinality(seen_auth_entries) < Cardinality(RawInput)
  /\ Occurrences(ssh_log.lines, LineA2) = 1
  /\ LinePad \notin Range(ssh_log.lines)

\* a step of SSHLogExtractorAgent: its construction, its scan, its flush
IngestionStep ==
  \/ pc \in { "idle", "done", "failed" } /\ pc' \in { "extract", "failed" }
  \/ pc \in { "extract", "update" } /\ pc' # pc

\* a step of PrivateKeyDupAgent: its construction, find_dups, log_dups
DetectionStep == pc \in { "dup_init", "find_dups", "log_dups" } /\ pc' # pc

\* C24: a step of ingestion leaves every input file and private_key_dups
\* as they are and can only add lines at the end of ssh_log; a step of
\* detection leaves every input file and ssh_log as they are and can only
\* add lines at the end of private_key_dups.
C24_FrameConditions ==
  [][ /\ IngestionStep =>
           /\ authlogs' = authlogs
           /\ private_key_dups' = private_key_dups
           /\ IsPrefix(ssh_log.lines, ssh_log'.lines)
      /\ DetectionStep =>
           /\ authlogs' = authlogs
           /\ ssh_log' = ssh_log
           /\ IsPrefix(private_key_dups.lines, private_key_dups'.lines) ]_vars

\* a run, not the first, in which ingestion has added to ssh_log and
\* detection to private_key_dups, both files having had lines before
C24_Witness ==
  /\ pc = "done"
  /\ run_start.ssh_log # << >>
  /\ run_start.private_key_dups # << >>
  /\ Len(ssh_log.lines) > Len(run_start.ssh_log)
  /\ Len(private_key_dups.lines) > Len(run_start.private_key_dups)
  /\ ~input_touched

\* the sshd lines of the input that ssh_log did not hold when the run
\* started
ExpectedNewLines ==
  { Strip(l) : l \in { r \in RawInput : ContainsSshd(r) } }
    \ StrippedLines(run_start.ssh_log)

\* the records of the events of ssh_log whose fingerprint has two sources
\* or more, that private_key_dups, read as _load_existing_dups reads it, did
\* not hold when the run started
ExpectedNewDups ==
  { RecordOf(e) :
      e \in { x \in Events(ssh_log.lines) :
                Cardinality(SourcesOf(ssh_log.lines, GroupFp(x))) > 1 } }
    \ StrippedLines(run_start.private_key_dups)

\* C25: what a run leaves in ssh_log and private_key_dups is determined by
\* the contents of the input files and of the two files at its start: the
\* order in which glob lists the input files, and the order in which the
\* sets are iterated, have no part in it.
C25_OrderIndependence ==
  ( pc = "done" /\ ~input_touched ) =>
    /\ ssh_log.lines = run_start.ssh_log \o Sorted(ExpectedNewLines)
    /\ private_key_dups.lines =
         run_start.private_key_dups \o Sorted(ExpectedNewDups)

\* a run in which glob listed the files so that the new lines were met in
\* an order that is not the order they were written in, with new records
C25_Witness ==
  /\ pc = "done"
  /\ ~input_touched
  /\ Len(encountered) >= 2
  /\ encountered # Appended(run_start.ssh_log, ssh_log)
  /\ Len(Appended(run_start.private_key_dups, private_key_dups)) >= 2

\* C26: from an absent or empty ssh_log and input files that only grow,
\* every line of ssh_log has the sshd marker and is the text, without
\* leading and trailing whitespace, of a line of an input file.
C26_SshLogSound ==
  \A i \in 1..Len(ssh_log.lines) :
    /\ ContainsSshd(ssh_log.lines[i])
    /\ \E l \in RawInput : Strip(l) = ssh_log.lines[i]

\* ssh_log after two runs or more on an input with a line that has no
\* marker and a padded sshd line, which is in ssh_log without the padding
C26_Witness ==
  /\ runs >= 2
  /\ pc = "done"
  /\ LineCron \in RawInput
  /\ LinePad \in RawInput
  /\ LineA2 \notin RawInput
  /\ ssh_log.lines = << LineA2 >>

\* C27: seen_auth_entries holds every input line before the scan starts,
\* and has no part in what is ingested: the new lines of a run are the
\* input lines with the sshd marker that are not in the set loaded from
\* ssh_log, all of them members of seen_auth_entries.
C27_AuthSeenDoesNotGate ==
  /\ pc = "extract" => seen_auth_entries = { Strip(l) : l \in RawInput }
  /\ pc = "update" =>
       /\ new_ssh_entries =
            { l \in { Strip(r) : r \in RawInput } :
                ContainsSshd(l) /\ l \notin StrippedLines(ssh_log.lines) }
       /\ new_ssh_entries \subseteq seen_auth_entries

\* a scan, not of the first run, that took a line as new while
\* seen_auth_entries held it, and left out a line ssh_log had
C27_Witness ==
  /\ pc = "update"
  /\ runs >= 2
  /\ new_ssh_entries # {}
  /\ new_ssh_entries \subseteq seen_auth_entries
  /\ \E l \in seen_auth_entries :
       ContainsSshd(l) /\ l \notin new_ssh_entries

\* C22: two different lines of ssh_log that give the same source, user,
\* timestamp and fingerprint give one entry of the index and one line
\* of private_key_dups at most.
C22_SameTripleOneRecord ==
  \A e1, e2 \in Events(ssh_log.lines) :
    ( e1 # e2 /\ Triple(e1) = Triple(e2) /\ GroupFp(e1) = GroupFp(e2) ) =>
      /\ pc \in { "log_dups", "done" } =>
           /\ GroupFp(e1) \in DOMAIN fingerprint_to_sources
           /\ Cardinality({ t \in fingerprint_to_sources[GroupFp(e1)] :
                              t = Triple(e1) }) = 1
      /\ Occurrences(private_key_dups.lines, RecordOf(e1)) <= 1

\* C28: whatever became of the reachability test and of the retrieval, main
\* goes on to the ingestion and then to the detection, which starts only
\* when update_ssh_log has returned; a run that has started its retrieval
\* phase completes the detection.
C28_AgentsAlwaysRun ==
  /\ [][ /\ pc = "retrieved" => pc' = "extract"
         /\ pc' = "dup_init" => pc = "update" ]_vars
  /\ (pc = "reach") ~> (pc = "done")
  /\ \A o \in { "unreachable", "scp_failed", "exception", "success" } :
       (pc = "retrieved" /\ retrieval.outcome = o)
          ~> (pc = "done" /\ retrieval.outcome = o)

\* both agents have run and reported in a second run whose host was
\* unreachable
C28_Witness ==
  /\ pc = "done"
  /\ runs = 2
  /\ retrieval.outcome = "unreachable"
  /\ Reported("ssh_log") # {}
  /\ Reported("private_key_dups") # {}

\* C29: once retrieve_auth_log has returned, on any of its exit paths, the
\* temporary download file of the host does not exist, and the files the
\* ingestion globs are the snapshot files only.
C29_TempFileRemoved ==
  /\ pc = "retrieved" => ~tmpfiles[LocalFile(retrieval.host)].exists
  /\ pc \in { "extract", "update" } => GlobFiles = AuthLogs

\* a is b with some of its elements left out, the others in b's order
RECURSIVE IsSubsequence(_, _)
IsSubsequence(a, b) ==
  IF a = << >> THEN TRUE
  ELSE IF b = << >> THEN FALSE
  ELSE IF Head(a) = Head(b) THEN IsSubsequence(Tail(a), Tail(b))
  ELSE IsSubsequence(a, Tail(b))

\* the step in which retrieve_auth_log returns True
SuccessfulRetrieval ==
  /\ pc = "merge"
  /\ pc' = "retrieved"
  /\ retrieval'.outcome = "success"

\* C30: in a successful retrieval the snapshot file's previous content is a
\* prefix of its new content, every downloaded line is in the snapshot
\* afterwards, and what was appended are lines the snapshot did not hold,
\* in the order of the download; the other snapshot file is not touched.
C30_SnapshotMerge ==
  [][ SuccessfulRetrieval =>
        LET f        == LocalFile(retrieval.host)
            before   == authlogs[f]
            after    == authlogs'[f]
            download == tmpfiles[f].lines
            appended == SubSeq(after, Len(before) + 1, Len(after))
        IN  /\ Len(after) >= Len(before)
            /\ SubSeq(after, 1, Len(before)) = before
            /\ Range(download) \subseteq Range(after)
            /\ \A i \in DOMAIN appended : appended[i] \notin Range(before)
            /\ IsSubsequence(appended, download)
            /\ \A g \in AuthLogs \ { f } : authlogs'[g] = authlogs[g] ]_vars

\* a retrieval has succeeded on a snapshot that held a line already, with a
\* download holding that line and one the snapshot did not hold
C30_Witness ==
  /\ pc = "retrieved"
  /\ retrieval.outcome = "success"
  /\ retrieval.before # << >>
  /\ \E i, j \in DOMAIN retrieval.downloaded :
       /\ i < j
       /\ retrieval.downloaded[i] \in Range(retrieval.before)
       /\ retrieval.downloaded[j] \notin Range(retrieval.before)
  /\ Len(authlogs[LocalFile(retrieval.host)]) > Len(retrieval.before)

====
